---- MODULE Spec2Model ----
(***************************************************************************)
(* Model of main() of the Auto Job Applier (src/main.py): the ranking     *)
(* block (role-match bonus, sort by score) and the apply phase (bulk       *)
(* auto-apply, per-job apply loop, report), the match block, the           *)
(* eligibility gate, and search_naukri_with_selenium.                      *)
(*                                                                         *)
(* Strings are sequences of one-character strings; a job is a record; the  *)
(* lists applied_jobs / failed_jobs / skipped_jobs hold job ids, because   *)
(* the Python lists hold references to the job dictionaries.               *)
(*                                                                         *)
(* History variables: scored (order of the list handed to the sort),       *)
(* calls (connector calls per job in this invocation), prev_applied (jobs  *)
(* an earlier invocation recorded as applied), run (invocation number),     *)
(* since_call (seconds slept since the last connector call of the per-job  *)
(* loop, -1 before the first), scoring_calls (calls of a scorer),          *)
(* returncode (exit code of the last connector subprocess, -1 when none    *)
(* returned), bulk_loaded (what load_json gave apply_to_multiple_jobs),    *)
(* pages (the result pages the search processed), search_out (how the      *)
(* search function ended).                                                 *)
(***************************************************************************)
EXTENDS Integers, Sequences, FiniteSets, TLC

VARIABLES pc, DATABASE_AVAILABLE, user_id, args, user_roles, ranked_jobs,
          scored, applied_jobs, failed_jobs, skipped_jobs, calls, wait_time,
          report, browser, retval, run, prev_applied, i, since_call,
          job_details, match_results, match_method, filter_company_site,
          ineligible_jobs, ranked_data, scoring_calls, have_ranked_file,
          returncode, bulk_loaded,
          driver, current_page, job_links, max_jobs, pages, search_out

\* the variables of the match phase and of the eligibility step
pipeVars == <<job_details, match_results, match_method, filter_company_site,
              ineligible_jobs, ranked_data, scoring_calls, have_ranked_file>>

\* the variables of the apply phase
applyVars == <<applied_jobs, failed_jobs, skipped_jobs, calls, wait_time,
               report, browser, retval, run, prev_applied, i, since_call,
               returncode, bulk_loaded>>

\* the variables of search_naukri_with_selenium
searchVars == <<driver, current_page, job_links, max_jobs, pages, search_out>>

vars == <<pc, DATABASE_AVAILABLE, user_id, args, user_roles, ranked_jobs,
          scored, applied_jobs, failed_jobs, skipped_jobs, calls, wait_time,
          report, browser, retval, run, prev_applied, i, since_call,
          returncode, bulk_loaded, pipeVars, searchVars>>

----------------------------------------------------------------------------
(* Bounds of the model *)

\* most jobs in the list handed to the ranking block
MaxRankJobs == 2
\* most comma-separated pieces in --roles
MaxRoles == 3
\* most jobs entering the apply phase
MaxJobs == 2
\* most invocations of main on the same job set
MaxRuns == 2
\* most jobs in job_details and in ranked_jobs.json
MaxMatchJobs == 2

----------------------------------------------------------------------------
(* Strings *)

\* str.lower() on one character
LowerChar(c) ==
    CASE c = "A" -> "a"
      [] c = "B" -> "b"
      [] OTHER -> c

\* str.lower()
Lower(s) == [k \in 1..Len(s) |-> LowerChar(s[k])]

RECURSIVE LStrip(_)
LStrip(s) == IF s # <<>> /\ Head(s) = " " THEN LStrip(Tail(s)) ELSE s

RECURSIVE RStrip(_)
RStrip(s) ==
    IF s # <<>> /\ s[Len(s)] = " " THEN RStrip(SubSeq(s, 1, Len(s) - 1)) ELSE s

\* str.strip()
Strip(s) == RStrip(LStrip(s))

\* Python's  sub in s  on strings
Contains(sub, s) ==
    \E k \in 0..(Len(s) - Len(sub)) : SubSeq(s, k + 1, k + Len(sub)) = sub

RECURSIVE UserRoles(_)
\* user_roles = [r.strip() for r in args.roles.split(",") if r.strip()];
\* the argument is the list args.roles.split(",")
UserRoles(pieces) ==
    IF pieces = <<>> THEN <<>>
    ELSE IF Strip(Head(pieces)) # <<>>
         THEN <<Strip(Head(pieces))>> \o UserRoles(Tail(pieces))
         ELSE UserRoles(Tail(pieces))

Min(x, y) == IF x <= y THEN x ELSE y

SeqsUpTo(S, n) == UNION {[1..k -> S] : k \in 0..n}

Ids(jobs) == {jobs[k].id : k \in 1..Len(jobs)}

IdSeq(jobs) == [k \in 1..Len(jobs) |-> jobs[k].id]

\* position of an id in a list of ids (0 when absent)
Pos(ids, x) ==
    IF \E k \in 1..Len(ids) : ids[k] = x
    THEN CHOOSE k \in 1..Len(ids) : ids[k] = x
    ELSE 0

----------------------------------------------------------------------------
(* Ranking block: role-match bonus and sort *)

\* the default of --min-score
DefaultMinScore == 7
\* the cap of the role-match bonus
BonusCap == 2
\* the cap of the adjusted score
ScoreCap == 10

\* pieces of --roles after split(","): "a", "A", " ab", and an empty piece
RolePieces == { <<"a">>, <<"A">>, <<" ", "a", "b">>, <<>> }

\* job titles: "Aba" holds the roles a and ab, a twice; "b" holds neither
Titles == { <<"A", "b", "a">>, <<"b">> }

\* scores the scorer returned: the scorers give a score from 0 to 10
Scores == {0, 7, 9, 10}

\* the job dictionary built from one (job_id, score, explanation) result
RankedJob(id, title, score, apply_type) ==
    [id |-> id, title |-> title, score |-> score, original_score |-> score,
     bonus |-> 0, apply_type |-> apply_type,
     application_method |-> "unknown"]

\* the lists of scored jobs the ranking block may be handed
RankInputs ==
    UNION { { [k \in 1..n |-> RankedJob(k, t[k], s[k], "direct")] :
                t \in [1..n -> Titles], s \in [1..n -> Scores] } :
            n \in 0..MaxRankJobs }

RECURSIVE RoleMatchScore(_, _)
\* role_match_score after the loop  for role in user_roles
RoleMatchScore(job_role, roles) ==
    IF roles = <<>> THEN 0
    ELSE (IF Contains(Lower(Head(roles)), job_role) THEN 1 ELSE 0)
         + RoleMatchScore(job_role, Tail(roles))

RoleBonusUncapped(role_match_score) == role_match_score

\* bonus = min(role_match_score, 2)
RoleBonus(role_match_score) == Min(role_match_score, BonusCap)

AddRoleBonusUnclipped(job, roles) ==
    LET role_match_score == RoleMatchScore(Lower(job.title), roles)
        bonus == RoleBonus(role_match_score)
    IN  IF role_match_score > 0
        THEN [job EXCEPT !.score = job.score + bonus, !.bonus = bonus]
        ELSE job

\* one iteration of  for job in ranked_jobs  of the bonus loop
AddRoleBonus(job, roles) ==
    LET role_match_score == RoleMatchScore(Lower(job.title), roles)
        bonus == RoleBonus(role_match_score)
    IN  IF role_match_score > 0
        THEN [job EXCEPT !.score = Min(job.score + bonus, ScoreCap),
                         !.bonus = bonus]
        ELSE job

InsertByScoreBeforeEqual(sorted, job) ==
    LET n == Cardinality({k \in 1..Len(sorted) : sorted[k].score > job.score})
    IN  SubSeq(sorted, 1, n) \o <<job>> \o SubSeq(sorted, n + 1, Len(sorted))

\* a job placed into a list sorted by descending score, behind the jobs
\* of equal score (list.sort is stable, also with reverse=True)
InsertByScore(sorted, job) ==
    LET n == Cardinality({k \in 1..Len(sorted) : sorted[k].score >= job.score})
    IN  SubSeq(sorted, 1, n) \o <<job>> \o SubSeq(sorted, n + 1, Len(sorted))

RECURSIVE SortByScore(_)
\* ranked_jobs.sort(key=lambda x: x["score"], reverse=True)
SortByScore(jobs) ==
    IF jobs = <<>> THEN <<>>
    ELSE InsertByScore(SortByScore(SubSeq(jobs, 1, Len(jobs) - 1)),
                       jobs[Len(jobs)])

NoReport == [built |-> FALSE]

\* bulk_loaded before apply_to_multiple_jobs has loaded the results file
NotLoaded == [kind |-> "unset", list |-> <<>>]

\* the variables of the search, outside the search
SearchIdle ==
    /\ driver = "none"
    /\ current_page = 0
    /\ job_links = <<>>
    /\ max_jobs = 0
    /\ pages = <<>>
    /\ search_out = "none"

\* the variables of the apply phase, before the apply phase
ApplyPhaseIdle ==
    /\ applied_jobs = <<>>
    /\ failed_jobs = <<>>
    /\ skipped_jobs = <<>>
    /\ calls = [j \in 1..0 |-> 0]
    /\ wait_time = 0
    /\ report = NoReport
    /\ browser = "none"
    /\ retval = -1
    /\ run = 1
    /\ prev_applied = {}
    /\ i = 0
    /\ since_call = -1
    /\ returncode = -1
    /\ bulk_loaded = NotLoaded

\* the variables of the apply phase and of the search, outside both
ApplyIdle == ApplyPhaseIdle /\ SearchIdle

\* the variables of the match phase and of the eligibility step, unused
PipeIdle ==
    /\ job_details = <<>>
    /\ match_results = <<>>
    /\ match_method = "none"
    /\ filter_company_site = FALSE
    /\ ineligible_jobs = <<>>
    /\ ranked_data = <<>>
    /\ scoring_calls = 0
    /\ have_ranked_file = FALSE

InitRank ==
    /\ pc = "roles"
    /\ DATABASE_AVAILABLE = FALSE
    /\ user_id = 0
    /\ args \in [roles : SeqsUpTo(RolePieces, MaxRoles),
                 apply : {FALSE}, auto_apply : {FALSE},
                 mode : {"full"}, min_score : {DefaultMinScore}]
    /\ user_roles = <<>>
    /\ ranked_jobs = <<>>
    /\ scored = <<>>
    /\ ApplyIdle
    /\ PipeIdle

\* user_roles built from --roles
BuildUserRoles ==
    /\ pc = "roles"
    /\ user_roles' = UserRoles(args.roles)
    /\ pc' = "score"
    /\ UNCHANGED <<DATABASE_AVAILABLE, user_id, args, ranked_jobs, scored,
                   applied_jobs, failed_jobs, skipped_jobs, calls, wait_time,
                   report, browser, retval, run, prev_applied, i,
                   since_call, returncode,
                   bulk_loaded, pipeVars,
                   searchVars>>

\* ranked_jobs built from the scorer's results
BuildRankedJobs ==
    /\ pc = "score"
    /\ \E jobs \in RankInputs : ranked_jobs' = jobs
    /\ pc' = "bonus"
    /\ UNCHANGED <<DATABASE_AVAILABLE, user_id, args, user_roles, scored,
                   applied_jobs, failed_jobs, skipped_jobs, calls, wait_time,
                   report, browser, retval, run, prev_applied, i,
                   since_call, returncode,
                   bulk_loaded, pipeVars,
                   searchVars>>

\* the role-match bonus loop
AddRoleBonuses ==
    /\ pc = "bonus"
    /\ ranked_jobs' = [k \in 1..Len(ranked_jobs) |->
                          AddRoleBonus(ranked_jobs[k], user_roles)]
    /\ pc' = "sort"
    /\ UNCHANGED <<DATABASE_AVAILABLE, user_id, args, user_roles, scored,
                   applied_jobs, failed_jobs, skipped_jobs, calls, wait_time,
                   report, browser, retval, run, prev_applied, i,
                   since_call, returncode,
                   bulk_loaded, pipeVars,
                   searchVars>>

\* the sort by score; scored records the order of the list it was given
SortRankedJobs ==
    /\ pc = "sort"
    /\ scored' = IdSeq(ranked_jobs)
    /\ ranked_jobs' = SortByScore(ranked_jobs)
    /\ pc' = "ranked"
    /\ UNCHANGED <<DATABASE_AVAILABLE, user_id, args, user_roles,
                   applied_jobs, failed_jobs, skipped_jobs, calls, wait_time,
                   report, browser, retval, run, prev_applied, i,
                   since_call, returncode,
                   bulk_loaded, pipeVars,
                   searchVars>>

NextRank ==
    \/ BuildUserRoles
    \/ BuildRankedJobs
    \/ AddRoleBonuses
    \/ SortRankedJobs

SpecRank == InitRank /\ [][NextRank]_vars

----------------------------------------------------------------------------
(* Match block: from its condition to ranked_jobs built from the results, *)
(* and the ranked list loaded from ranked_jobs.json when it is skipped    *)

\* job.get("job_id") of a job that has no job_id
NoJobId == 0
\* the score of a result that has none (None)
NoScore == -1

\* args.mode ("parse" behaves like "search" from here on)
Modes == {"full", "apply", "search"}

\* the answers to the prompt for the matching method: LLM, TF-IDF, and "3"
\* for every other answer, which selects keyword matching
MatchMethods == {"1", "2", "3"}

\* one entry of job_details: its job_id, whether it has a job description,
\* its role and its apply type
JobDetail(job_id, desc) ==
    [job_id |-> job_id, desc |-> desc, role |-> <<"b">>,
     apply_type |-> "direct"]

\* the values of job_details at the condition of the match block: the k-th
\* job has job_id k, or none when no database run stored it
JobDetailsInputs ==
    UNION { { [k \in 1..n |-> JobDetail(IF id[k] THEN k ELSE NoJobId, d[k])] :
                id \in [1..n -> BOOLEAN], d \in [1..n -> BOOLEAN] } :
            n \in 0..MaxMatchJobs }

\* the lists ranked_jobs.json may hold: it was written after the sort
RankedFiles ==
    UNION { { SortByScore([k \in 1..n |-> RankedJob(k, <<"b">>, sc[k], "direct")]) :
                sc \in [1..n -> Scores] } :
            n \in 0..MaxMatchJobs }

InitMatch ==
    /\ pc = "guard"
    /\ DATABASE_AVAILABLE \in BOOLEAN
    /\ user_id \in (IF DATABASE_AVAILABLE THEN {0, 1} ELSE {0})
    /\ args \in [roles : { <<>>, << <<"b">> >> }, apply : {FALSE},
                 auto_apply : {FALSE}, mode : Modes,
                 min_score : {DefaultMinScore}]
    /\ user_roles = <<>>
    /\ ranked_jobs = <<>>
    /\ scored = <<>>
    /\ ApplyIdle
    /\ job_details \in JobDetailsInputs
    /\ match_results = <<>>
    /\ match_method = "none"
    /\ filter_company_site = FALSE
    /\ ineligible_jobs = <<>>
    /\ ranked_data = <<>>
    /\ scoring_calls = 0
    /\ have_ranked_file \in BOOLEAN

\* the condition of the match block
MatchGuard == args.mode \in {"full", "match", "apply"} /\ job_details # <<>>

\* the match block is entered: user_roles is built and the matching method
\* is read
EnterMatchBlock ==
    /\ pc = "guard"
    /\ MatchGuard
    /\ user_roles' = UserRoles(args.roles)
    /\ \E m \in MatchMethods : match_method' = m
    /\ pc' = "match"
    /\ UNCHANGED <<DATABASE_AVAILABLE, user_id, args, ranked_jobs, scored,
                   applyVars, job_details, match_results,
                   filter_company_site, ineligible_jobs, ranked_data,
                   scoring_calls, have_ranked_file,
                   searchVars>>

\* what load_json gives for ranked_jobs.json (an empty list stands for None
\* as well: the code tests  if ranked_data)
LoadedRanked ==
    IF DATABASE_AVAILABLE \/ ~have_ranked_file THEN {<<>>} ELSE RankedFiles

\* [job for job in ranked_data if job["score"] >= args.min_score]
AtLeastMinScore(data) ==
    SelectSeq(data, LAMBDA job : job.score >= args.min_score)

\* the match block is skipped: the ranked list is loaded from the file
LoadRankedJobs ==
    /\ pc = "guard"
    /\ ~MatchGuard
    /\ \E data \in LoadedRanked :
         /\ ranked_data' = data
         /\ ranked_jobs' = AtLeastMinScore(data)
    /\ pc' = "apply"
    /\ UNCHANGED <<DATABASE_AVAILABLE, user_id, args, user_roles, scored,
                   applyVars, job_details, match_results, match_method,
                   filter_company_site, ineligible_jobs, scoring_calls,
                   have_ranked_file,
                   searchVars>>

\* the job_details list made a dictionary keyed by job_id: a job without
\* job_id is left out
ConvertJobDetails(jobs) == SelectSeq(jobs, LAMBDA job : job.job_id # NoJobId)

\* job_desc_tuples: the jobs that have a description
JobDescTuples(jobs) == SelectSeq(jobs, LAMBDA job : job.desc)

\* the results of the scorer: one (job_id, score, explanation) for each job
\* it was given, the score possibly None
ScorerResults(tuples) ==
    { [k \in 1..Len(tuples) |-> [job_id |-> tuples[k].job_id, score |-> sc[k]]] :
        sc \in [1..Len(tuples) -> Scores \cup {NoScore}] }

\* threshold=3.0 of the two_stage_job_matching call
TwoStageThreshold == 3

SkipLLMOff == FALSE

\* skip_llm=True of the two_stage_job_matching call
SkipLLM == TRUE

\* the scorer two_stage_job_matching uses for a job: the statistical scorer,
\* and the LLM for a job above the threshold unless the LLM stage is skipped
TwoStageScorer(score) ==
    IF SkipLLM \/ score <= TwoStageThreshold THEN "tfidf" ELSE "llm"

\* the scorer that scores a job under the chosen matching method
Scorer(method, score) ==
    CASE method = "1" -> "llm"
      [] method = "2" -> TwoStageScorer(score)
      [] OTHER -> "keyword"

\* the results with the scorer of each
TagScorer(res, method) ==
    [k \in 1..Len(res) |->
        [job_id |-> res[k].job_id, score |-> res[k].score,
         by |-> Scorer(method, res[k].score)]]

\* the number of calls of a scorer: the batch scorers are called once, the
\* keyword scorer once for each job that has a description
ScorerCalls(method, tuples) == IF method \in {"1", "2"} THEN 1 ELSE Len(tuples)

\* the jobs are scored by the chosen method
ScoreJobs ==
    /\ pc = "match"
    /\ job_details' = ConvertJobDetails(job_details)
    /\ \E res \in ScorerResults(JobDescTuples(ConvertJobDetails(job_details))) :
         match_results' = TagScorer(res, match_method)
    /\ scoring_calls' = scoring_calls
         + ScorerCalls(match_method, JobDescTuples(ConvertJobDetails(job_details)))
    /\ pc' = "build"
    /\ UNCHANGED <<DATABASE_AVAILABLE, user_id, args, user_roles, ranked_jobs,
                   scored, applyVars, match_method, filter_company_site,
                   ineligible_jobs, ranked_data, have_ranked_file,
                   searchVars>>

\* job_id in job_details
InJobDetails(jobs, job_id) == \E k \in 1..Len(jobs) : jobs[k].job_id = job_id

\* job_details[job_id]
JobOf(jobs, job_id) == jobs[CHOOSE k \in 1..Len(jobs) : jobs[k].job_id = job_id]

ScoreIsNever(score) == FALSE

\* score is None
ScoreIsNone(score) == score = NoScore

\* the ranked jobs appended for a list of results: a result without score or
\* without job is skipped
RankedFromResults(res, jobs) ==
    LET kept == SelectSeq(res, LAMBDA r : ~ScoreIsNone(r.score)
                                          /\ InJobDetails(jobs, r.job_id))
    IN  [k \in 1..Len(kept) |->
            RankedJob(kept[k].job_id, JobOf(jobs, kept[k].job_id).role,
                      kept[k].score, JobOf(jobs, kept[k].job_id).apply_type)]

\* ranked_jobs after the keyword branch: the list it builds from its results
KeywordRanked(method, res, jobs) ==
    IF method \in {"1", "2"} THEN <<>> ELSE RankedFromResults(res, jobs)

\* ranked_jobs is built from the results: the loop behind the three branches
\* appends to the list the keyword branch has already built
BuildRankedFromResults ==
    /\ pc = "build"
    /\ ranked_jobs' = KeywordRanked(match_method, match_results, job_details)
                        \o RankedFromResults(match_results, job_details)
    /\ pc' = "filter"
    /\ UNCHANGED <<DATABASE_AVAILABLE, user_id, args, user_roles, scored,
                   applyVars, pipeVars,
                   searchVars>>

NextMatch ==
    \/ EnterMatchBlock
    \/ LoadRankedJobs
    \/ ScoreJobs
    \/ BuildRankedFromResults

SpecMatch == InitMatch /\ [][NextMatch]_vars

----------------------------------------------------------------------------
(* Apply phase *)

\* job.get("details", {}).get("apply_type", "")
ApplyTypes == {"direct", "company_site"}

\* apply_method parsed from the subprocess output ("using direct" is
\* handled like "using chatbot" and is left out)
ApplyMethods == {"chatbot", "already_applied", "unknown"}

\* the ranked lists that reach the apply block
ApplyInputs ==
    UNION { { [k \in 1..n |-> RankedJob(k, <<"b">>, 8, t[k])] :
                t \in [1..n -> ApplyTypes] } :
            n \in 0..MaxJobs }

DirectApplyJobsAll(jobs) == IdSeq(jobs)

\* direct_apply_jobs
DirectApplyJobs(jobs) ==
    SelectSeq(IdSeq(jobs),
              LAMBDA x : jobs[Pos(IdSeq(jobs), x)].apply_type \in {"naukri", "direct"})

RECURSIVE ResultLists(_)
\* the result lists the bulk worker may leave in application_results.json
\* for a job queue: an entry with its applied flag, or no entry, per job
ResultLists(queue) ==
    IF queue = <<>> THEN {<<>>}
    ELSE LET rest == ResultLists(Tail(queue))
         IN  rest \cup
             { <<[id |-> Head(queue), applied |-> a]>> \o r :
                 a \in BOOLEAN, r \in rest }

\* what load_json(results_file) returns in apply_to_multiple_jobs
LoadedResults(queue) ==
    IF DATABASE_AVAILABLE
    THEN {[kind |-> "none", list |-> <<>>]}
    ELSE {[kind |-> "none", list |-> <<>>], [kind |-> "dict", list |-> <<>>]}
         \cup {[kind |-> "list", list |-> r] : r \in ResultLists(queue)}

BulkReturnApplied(queue, loaded) ==
    [k \in 1..Len(queue) |-> [id |-> queue[k], applied |-> TRUE]]

\* the return value of apply_to_multiple_jobs
BulkReturn(queue, loaded) ==
    IF loaded.kind # "list" \/ loaded.list = <<>>
    THEN [k \in 1..Len(queue) |-> [id |-> queue[k], applied |-> FALSE]]
    ELSE loaded.list

\* job in job_queue
InQueue(queue, j) == \E k \in 1..Len(queue) : queue[k] = j

\* applied_jobs / failed_jobs taken from the results
ResultIds(results, flag) ==
    LET sel == SelectSeq(results, LAMBDA r : r.applied = flag)
    IN  [k \in 1..Len(sel) |-> sel[k].id]

InitApply ==
    /\ pc = "apply"
    /\ DATABASE_AVAILABLE \in BOOLEAN
    /\ user_id \in (IF DATABASE_AVAILABLE THEN {0, 1} ELSE {0})
    /\ args \in [roles : {<<>>}, apply : BOOLEAN, auto_apply : BOOLEAN,
                 mode : {"full"}, min_score : {DefaultMinScore}]
    /\ user_roles = <<>>
    /\ ranked_jobs \in ApplyInputs
    /\ scored = <<>>
    /\ ApplyIdle
    /\ PipeIdle

\* the condition of the apply block
ApplyGuard ==
    /\ args.mode \in {"full", "apply", "match"}
    /\ args.apply \/ args.auto_apply
    /\ ranked_jobs # <<>>

\* the apply block is not entered
NoApplyPhase ==
    /\ pc = "apply"
    /\ ~ApplyGuard
    /\ pc' = "done"
    /\ retval' = 0
    /\ UNCHANGED <<DATABASE_AVAILABLE, user_id, args, user_roles, ranked_jobs,
                   scored, applied_jobs, failed_jobs, skipped_jobs, calls,
                   wait_time, report, browser, run, prev_applied, i,
                   since_call, returncode,
                   bulk_loaded, pipeVars,
                   searchVars>>

\* start_browser() returns False: return 1
StartBrowserFails ==
    /\ pc = "apply"
    /\ ApplyGuard
    /\ pc' = "done"
    /\ retval' = 1
    /\ calls' = [j \in Ids(ranked_jobs) |-> 0]
    /\ UNCHANGED <<DATABASE_AVAILABLE, user_id, args, user_roles, ranked_jobs,
                   scored, applied_jobs, failed_jobs, skipped_jobs,
                   wait_time, report, browser, run, prev_applied, i,
                   since_call, returncode,
                   bulk_loaded, pipeVars,
                   searchVars>>

\* start_browser() returns True
StartBrowser ==
    /\ pc = "apply"
    /\ ApplyGuard
    /\ browser' = "open"
    /\ calls' = [j \in Ids(ranked_jobs) |-> 0]
    /\ pc' = IF args.auto_apply THEN "auto" ELSE "login"
    /\ UNCHANGED <<DATABASE_AVAILABLE, user_id, args, user_roles, ranked_jobs,
                   scored, applied_jobs, failed_jobs, skipped_jobs,
                   wait_time, report, retval, run, prev_applied, i,
                   since_call, returncode,
                   bulk_loaded, pipeVars,
                   searchVars>>

\* auto-apply with no job of apply type naukri or direct
AutoApplyNothing ==
    /\ pc = "auto"
    /\ DirectApplyJobs(ranked_jobs) = <<>>
    /\ applied_jobs' = <<>>
    /\ failed_jobs' = <<>>
    /\ skipped_jobs' = IdSeq(ranked_jobs)
    /\ pc' = "report"
    /\ UNCHANGED <<DATABASE_AVAILABLE, user_id, args, user_roles, ranked_jobs,
                   scored, calls, wait_time, report, browser, retval, run,
                   prev_applied, i,
                   since_call, returncode,
                   bulk_loaded, pipeVars,
                   searchVars>>

\* process.returncode: 0, or 1 for every other exit code
ExitCodes == {0, 1}

SuccessAlways(code) == TRUE

\* success = process.returncode == 0
Success(code) == code = 0

\* auto-apply: the direct jobs go to the bulk worker in one subprocess,
\* and its results are split into applied and failed
AutoApplyBulk ==
    /\ pc = "auto"
    /\ DirectApplyJobs(ranked_jobs) # <<>>
    /\ \E loaded \in LoadedResults(DirectApplyJobs(ranked_jobs)) :
         LET queue == DirectApplyJobs(ranked_jobs)
             results == BulkReturn(queue, loaded)
         IN  /\ calls' = [j \in DOMAIN calls |->
                            IF \E k \in 1..Len(queue) : queue[k] = j
                            THEN calls[j] + 1 ELSE calls[j]]
             /\ applied_jobs' = ResultIds(results, TRUE)
             /\ failed_jobs' = ResultIds(results, FALSE)
             /\ skipped_jobs' = <<>>
             /\ bulk_loaded' = loaded
    /\ \E code \in ExitCodes : returncode' = code
    /\ pc' = "report"
    /\ UNCHANGED <<DATABASE_AVAILABLE, user_id, args, user_roles, ranked_jobs,
                   scored, wait_time, report, browser, retval, run,
                   prev_applied, i,
                   since_call, pipeVars,
                   searchVars>>

\* ensure_logged_in() returns False: return 1 through the finally clause
LoginFails ==
    /\ pc = "login"
    /\ browser' = "closed"
    /\ retval' = 1
    /\ pc' = "done"
    /\ UNCHANGED <<DATABASE_AVAILABLE, user_id, args, user_roles, ranked_jobs,
                   scored, applied_jobs, failed_jobs, skipped_jobs, calls,
                   wait_time, report, run, prev_applied, i,
                   since_call, returncode,
                   bulk_loaded, pipeVars,
                   searchVars>>

\* ensure_logged_in() returns True: the three lists start empty
Login ==
    /\ pc = "login"
    /\ applied_jobs' = <<>>
    /\ failed_jobs' = <<>>
    /\ skipped_jobs' = <<>>
    /\ i' = 1
    /\ since_call' = -1
    /\ pc' = "loop"
    /\ UNCHANGED <<DATABASE_AVAILABLE, user_id, args, user_roles, ranked_jobs,
                   scored, calls, wait_time, report, browser, retval, run,
                   prev_applied, returncode, bulk_loaded, pipeVars,
                   searchVars>>

\* the job of the current iteration of  for i, job in enumerate(ranked_jobs)
CurrentJob == ranked_jobs[i]

\* the loop goes on to the next job, or ends
NextIteration ==
    /\ i' = i + 1
    /\ pc' = IF i = Len(ranked_jobs) THEN "report" ELSE "loop"

\* subprocess.run for the current job: one connector call; apply_method,
\* when the output names one, is stored in the job
ConnectorCall(apply_method) ==
    /\ calls' = [calls EXCEPT ![CurrentJob.id] = @ + 1]
    /\ ranked_jobs' =
         IF apply_method # "unknown"
         THEN [ranked_jobs EXCEPT ![i].application_method = apply_method]
         ELSE ranked_jobs

\* what the iteration appends after the subprocess returned
Outcome(success) ==
    /\ applied_jobs' = IF success THEN Append(applied_jobs, CurrentJob.id)
                       ELSE applied_jobs
    /\ failed_jobs' = IF success THEN failed_jobs
                      ELSE Append(failed_jobs, CurrentJob.id)

\* what the iteration appends when a statement behind the append raises:
\* the handler appends the job to failed_jobs as well
OutcomeThenHandler(success) ==
    /\ applied_jobs' = IF success THEN Append(applied_jobs, CurrentJob.id)
                       ELSE applied_jobs
    /\ failed_jobs' = IF success THEN Append(failed_jobs, CurrentJob.id)
                      ELSE failed_jobs \o <<CurrentJob.id, CurrentJob.id>>

\* Two branches of the loop body have no action, because no run reaches
\* them.  The branch that only simulates an application needs args.apply
\* false, and the loop is entered with auto_apply false, so that the
\* condition of the apply block makes args.apply true.  The database update
\* behind each append needs "job_id" in job: the ranked job dictionaries
\* built by main have no such key, and with the database backend load_json
\* loads no ranked list that could have one.

\* wait_time = random.randint(5, 10)
WaitTimes == 5..10

\* an iteration without exception: the subprocess returns, the job is
\* appended to applied_jobs (return code 0) or failed_jobs, and the loop
\* sleeps random.randint(5, 10) seconds
ApplyJob ==
    /\ pc = "loop"
    /\ i <= Len(ranked_jobs)
    /\ \E code \in ExitCodes, apply_method \in ApplyMethods :
         /\ returncode' = code
         /\ ConnectorCall(apply_method)
         /\ Outcome(Success(code))
    /\ \E t \in WaitTimes : wait_time' = t /\ since_call' = t
    /\ NextIteration
    /\ UNCHANGED <<DATABASE_AVAILABLE, user_id, args, user_roles, scored,
                   skipped_jobs, report, browser, retval, run, prev_applied,
                   bulk_loaded, pipeVars,
                   searchVars>>

\* an iteration in which a statement before the subprocess returns raises
\* (writing temp_user_data.json, subprocess.run itself): except Exception
\* appends the job to failed_jobs, and there is no sleep
ApplyJobRaises ==
    /\ pc = "loop"
    /\ i <= Len(ranked_jobs)
    /\ failed_jobs' = Append(failed_jobs, CurrentJob.id)
    /\ wait_time' = 0
    /\ returncode' = -1
    /\ NextIteration
    /\ UNCHANGED <<DATABASE_AVAILABLE, user_id, args, user_roles, ranked_jobs,
                   scored, applied_jobs, skipped_jobs, calls, report, browser,
                   retval, run, prev_applied,
                   since_call, bulk_loaded, pipeVars,
                   searchVars>>

\* an iteration in which the print before the sleep raises (OSError on a
\* closed stdout), after the outcome was appended
ApplyJobRaisesAfterOutcome ==
    /\ pc = "loop"
    /\ i <= Len(ranked_jobs)
    /\ \E code \in ExitCodes, apply_method \in ApplyMethods :
         /\ returncode' = code
         /\ ConnectorCall(apply_method)
         /\ OutcomeThenHandler(Success(code))
    /\ wait_time' = 0
    /\ since_call' = 0
    /\ NextIteration
    /\ UNCHANGED <<DATABASE_AVAILABLE, user_id, args, user_roles, scored,
                   skipped_jobs, report, browser, retval, run, prev_applied,
                   bulk_loaded, pipeVars,
                   searchVars>>

\* subprocess.run of the per-job loop has no timeout: a connector that
\* never returns leaves main waiting in the call
ConnectorHangs ==
    /\ pc = "loop"
    /\ i <= Len(ranked_jobs)
    /\ calls' = [calls EXCEPT ![CurrentJob.id] = @ + 1]
    /\ pc' = "hung"
    /\ UNCHANGED <<DATABASE_AVAILABLE, user_id, args, user_roles, ranked_jobs,
                   scored, applied_jobs, failed_jobs, skipped_jobs, wait_time,
                   report, browser, retval, run, prev_applied, i,
                   since_call, returncode,
                   bulk_loaded, pipeVars,
                   searchVars>>

\* subprocess.run of apply_to_multiple_jobs has no timeout either
BulkWorkerHangs ==
    /\ pc = "auto"
    /\ DirectApplyJobs(ranked_jobs) # <<>>
    /\ calls' = [j \in DOMAIN calls |->
                   IF InQueue(DirectApplyJobs(ranked_jobs), j)
                   THEN calls[j] + 1 ELSE calls[j]]
    /\ pc' = "hung"
    /\ UNCHANGED <<DATABASE_AVAILABLE, user_id, args, user_roles, ranked_jobs,
                   scored, applied_jobs, failed_jobs, skipped_jobs, wait_time,
                   report, browser, retval, run, prev_applied, i,
                   since_call, returncode,
                   bulk_loaded, pipeVars,
                   searchVars>>

\* KeyboardInterrupt in the per-job loop (Ctrl-C while the subprocess runs
\* or while main sleeps): except Exception does not catch it, the finally
\* clause closes the browser, and main ends without the results file and
\* without the report
Interrupt ==
    /\ pc = "loop"
    /\ browser' = "closed"
    /\ pc' = "interrupted"
    /\ UNCHANGED <<DATABASE_AVAILABLE, user_id, args, user_roles, ranked_jobs,
                   scored, applied_jobs, failed_jobs, skipped_jobs, calls,
                   wait_time, report, retval, run, prev_applied, i,
                   since_call, returncode,
                   bulk_loaded, pipeVars,
                   searchVars>>

\* the report dictionary
Report ==
    [built |-> TRUE,
     applied_count |-> Len(applied_jobs),
     failed_count |-> Len(failed_jobs),
     skipped_count |-> Len(skipped_jobs),
     applied_jobs |-> applied_jobs,
     failed_jobs |-> failed_jobs,
     skipped_jobs |-> skipped_jobs,
     saved |-> ~DATABASE_AVAILABLE]

\* the results and the report are built and saved, the finally clause
\* closes the browser, main returns 0
GenerateReport ==
    /\ pc = "report"
    /\ report' = Report
    /\ browser' = "closed"
    /\ retval' = 0
    /\ pc' = "done"
    /\ UNCHANGED <<DATABASE_AVAILABLE, user_id, args, user_roles, ranked_jobs,
                   scored, applied_jobs, failed_jobs, skipped_jobs, calls,
                   wait_time, run, prev_applied, i,
                   since_call, returncode,
                   bulk_loaded, pipeVars,
                   searchVars>>

\* main is invoked again on the same ranked list; prev_applied holds the
\* jobs an earlier invocation recorded as applied
Rerun ==
    /\ pc = "done"
    /\ run < MaxRuns
    /\ run' = run + 1
    /\ prev_applied' = prev_applied \cup {applied_jobs[k] : k \in 1..Len(applied_jobs)}
    /\ ranked_jobs' = [k \in 1..Len(ranked_jobs) |->
                          [ranked_jobs[k] EXCEPT !.application_method = "unknown"]]
    /\ applied_jobs' = <<>>
    /\ failed_jobs' = <<>>
    /\ skipped_jobs' = <<>>
    /\ calls' = [j \in 1..0 |-> 0]
    /\ wait_time' = 0
    /\ report' = NoReport
    /\ browser' = "none"
    /\ retval' = -1
    /\ i' = 0
    /\ since_call' = -1
    /\ returncode' = -1
    /\ bulk_loaded' = NotLoaded
    /\ pc' = "apply"
    /\ UNCHANGED <<DATABASE_AVAILABLE, user_id, args, user_roles, scored,
                   pipeVars,
                   searchVars>>

Init == InitApply

Next ==
    \/ NoApplyPhase
    \/ StartBrowserFails
    \/ StartBrowser
    \/ AutoApplyNothing
    \/ AutoApplyBulk
    \/ LoginFails
    \/ Login
    \/ ApplyJob
    \/ ApplyJobRaises
    \/ ApplyJobRaisesAfterOutcome
    \/ ConnectorHangs
    \/ BulkWorkerHangs
    \/ Interrupt
    \/ GenerateReport
    \/ Rerun

Spec == Init /\ [][Next]_vars

----------------------------------------------------------------------------
(* From the company-site filter to the apply phase *)

\* the min_score main passes to check_job_eligibility
GateMinScore == 5

\* the scores of the jobs at the filter: one below and one above the
\* min_score of the gate
FilterScores == {0, 7}

NotCompanySiteKeepsAll(jobs) == jobs

\* ranked_jobs without the jobs of apply type company_site
NotCompanySite(jobs) ==
    SelectSeq(jobs, LAMBDA job : job.apply_type # "company_site")

\* check_job_eligibility(job, user_roles, min_score, search_skills) with no
\* search skills: not eligible when the score is below min_score and no user
\* role occurs in the title
CheckJobEligibility(job, roles, min_score) ==
    ~(job.score < min_score /\ RoleMatchScore(Lower(job.title), roles) = 0)

\* job_details where the k-th job has job_id k, a description and the
\* apply type t[k]; the list at the filter was built from its results by
\* LLM matching or by keyword matching
FilterJobDetails(n, t) ==
    [k \in 1..n |-> [JobDetail(k, TRUE) EXCEPT !.apply_type = t[k]]]

InitFilter ==
    /\ pc = "filter"
    /\ DATABASE_AVAILABLE = FALSE
    /\ user_id = 0
    /\ args \in [roles : { <<>>, << <<"b">> >> }, apply : BOOLEAN,
                 auto_apply : BOOLEAN, mode : {"full"},
                 min_score : {DefaultMinScore}]
    /\ user_roles = UserRoles(args.roles)
    /\ match_method \in {"1", "3"}
    /\ \E n \in 0..MaxJobs :
         \E t \in [1..n -> ApplyTypes], sc \in [1..n -> FilterScores] :
            /\ job_details = FilterJobDetails(n, t)
            /\ match_results =
                 TagScorer([k \in 1..n |-> [job_id |-> k, score |-> sc[k]]],
                           match_method)
            /\ ranked_jobs = KeywordRanked(match_method, match_results, job_details)
                               \o RankedFromResults(match_results, job_details)
    /\ Len(ranked_jobs) <= MaxJobs
    /\ scored = <<>>
    /\ ApplyIdle
    /\ filter_company_site = FALSE
    /\ ineligible_jobs = <<>>
    /\ ranked_data = <<>>
    /\ scoring_calls = 1
    /\ have_ranked_file = FALSE

\* the answer to the prompt for the company-site filter, and the filter
FilterCompanySite ==
    /\ pc = "filter"
    /\ \E answer \in BOOLEAN :
         /\ filter_company_site' = answer
         /\ ranked_jobs' = IF answer THEN NotCompanySite(ranked_jobs)
                           ELSE ranked_jobs
    /\ pc' = "bonus"
    /\ UNCHANGED <<DATABASE_AVAILABLE, user_id, args, user_roles, scored,
                   applyVars, job_details, match_results, match_method,
                   ineligible_jobs, ranked_data, scoring_calls,
                   have_ranked_file,
                   searchVars>>

EligibleJobsNewestFirst(jobs, roles) ==
    LET sel == SelectSeq(jobs,
                   LAMBDA job : CheckJobEligibility(job, roles, GateMinScore))
    IN  [k \in 1..Len(sel) |-> sel[Len(sel) + 1 - k]]

\* eligible_jobs: the loop over ranked_jobs appends each eligible job
EligibleJobs(jobs, roles) ==
    SelectSeq(jobs, LAMBDA job : CheckJobEligibility(job, roles, GateMinScore))

\* the sorted list is saved to ranked_jobs.json (without the database), the
\* gate splits it into eligible and ineligible jobs, and main goes on with
\* the eligible jobs, or returns 1 when there is none
EligibilityGate ==
    /\ pc = "ranked"
    /\ have_ranked_file' = (have_ranked_file \/ ~DATABASE_AVAILABLE)
    /\ ranked_jobs' = EligibleJobs(ranked_jobs, user_roles)
    /\ ineligible_jobs' = IdSeq(SelectSeq(ranked_jobs,
                         LAMBDA job : ~CheckJobEligibility(job, user_roles, GateMinScore)))
    /\ IF ranked_jobs' = <<>>
       THEN pc' = "done" /\ retval' = 1
       ELSE pc' = "apply" /\ retval' = retval
    /\ UNCHANGED <<DATABASE_AVAILABLE, user_id, args, user_roles, scored,
                   applied_jobs, failed_jobs, skipped_jobs, calls, wait_time,
                   report, browser, run, prev_applied, i, since_call,
                   returncode, bulk_loaded,
                   job_details, match_results, match_method,
                   filter_company_site, ranked_data, scoring_calls,
                   searchVars>>

NextFilter ==
    \/ FilterCompanySite
    \/ AddRoleBonuses
    \/ SortRankedJobs
    \/ EligibilityGate
    \/ NoApplyPhase
    \/ StartBrowserFails
    \/ StartBrowser
    \/ AutoApplyNothing
    \/ AutoApplyBulk
    \/ LoginFails
    \/ Login
    \/ ApplyJob
    \/ ApplyJobRaises
    \/ ApplyJobRaisesAfterOutcome
    \/ ConnectorHangs
    \/ BulkWorkerHangs
    \/ Interrupt
    \/ GenerateReport

SpecFilter == InitFilter /\ [][NextFilter]_vars

----------------------------------------------------------------------------
(* search_naukri_with_selenium: the browser, the pagination loop, the      *)
(* finally clause.  A job link is modelled by the number of the result     *)
(* page it was extracted from.                                             *)

\* the largest max_jobs of the model
MaxLinks == 4

\* the most links one result page yields
MaxCards == 2

\* max_pages = 3
MaxPages == 3

InitSearch ==
    /\ pc = "s_start"
    /\ DATABASE_AVAILABLE = FALSE
    /\ user_id = 0
    /\ args = [roles |-> <<>>, apply |-> FALSE, auto_apply |-> FALSE,
               mode |-> "search", min_score |-> DefaultMinScore]
    /\ user_roles = <<>>
    /\ ranked_jobs = <<>>
    /\ scored = <<>>
    /\ ApplyPhaseIdle
    /\ PipeIdle
    /\ driver = "none"
    /\ current_page = 0
    /\ job_links = <<>>
    /\ max_jobs \in 1..MaxLinks
    /\ pages = <<>>
    /\ search_out = "none"

\* the variables the search does not touch
searchFrame == <<DATABASE_AVAILABLE, user_id, args, user_roles, ranked_jobs,
                 scored, applyVars, pipeVars, max_jobs>>

\* driver = webdriver.Chrome(options=options) succeeds
StartDriver ==
    /\ pc = "s_start"
    /\ driver' = "open"
    /\ pc' = "s_setup"
    /\ UNCHANGED <<searchFrame, current_page, job_links, pages, search_out>>

\* webdriver.Chrome raises (no driver, profile directory in use): the
\* statement is before the try, the exception leaves the function
StartDriverRaises ==
    /\ pc = "s_start"
    /\ search_out' = "raised"
    /\ pc' = "s_done"
    /\ UNCHANGED <<searchFrame, driver, current_page, job_links, pages>>

\* driver.maximize_window() and WebDriverWait(driver, 10) succeed, and the
\* try block is entered
EnterTry ==
    /\ pc = "s_setup"
    /\ pc' = "s_nav"
    /\ UNCHANGED <<searchFrame, driver, current_page, job_links, pages,
                   search_out>>

\* driver.maximize_window() raises: the browser is started, the try block
\* with the finally clause is not entered yet
SetupRaises ==
    /\ pc = "s_setup"
    /\ search_out' = "raised"
    /\ pc' = "s_done"
    /\ UNCHANGED <<searchFrame, driver, current_page, job_links, pages>>

\* the finally clause: driver.quit(), then return job_links
Finally ==
    /\ driver' = "quit"
    /\ pc' = "s_done"

\* the search form is filled in and submitted, the result page is loaded;
\* job_links = [], current_page = 1
Navigate ==
    /\ pc = "s_nav"
    /\ job_links' = <<>>
    /\ current_page' = 1
    /\ pc' = "s_page"
    /\ UNCHANGED <<searchFrame, driver, pages, search_out>>

\* a statement of the try block before job_links = [] raises (driver.get,
\* save_screenshot, a print): the finally clause quits the browser, and its
\* return job_links reads a local variable that was never assigned, which
\* raises UnboundLocalError
NavigateRaises ==
    /\ pc = "s_nav"
    /\ Finally
    /\ search_out' = "raised"
    /\ UNCHANGED <<searchFrame, current_page, job_links, pages>>

\* page_job_links of a page with n links
PageJobLinks(page, n) == [k \in 1..n |-> page]

\* the loop condition
InLoop == pc = "s_page" /\ current_page <= MaxPages

\* no selector finds job cards on the page: break, return job_links; the
\* same happens when a statement of the loop body raises before the links
\* of the page are added, through the finally clause
NoJobCards ==
    /\ InLoop
    /\ pages' = Append(pages, current_page)
    /\ Finally
    /\ search_out' = "returned"
    /\ UNCHANGED <<searchFrame, current_page, job_links>>

\* job_links[:max_jobs]
Trim(links, n) == SubSeq(links, 1, Min(n, Len(links)))

\* the links of the page are added; with max_jobs links the list is
\* trimmed and returned; else the Next button leads to the next page, or
\* (no button, an exception caught at the click, the last page) the list
\* is returned
ExtractPage ==
    /\ InLoop
    /\ pages' = Append(pages, current_page)
    /\ \E n \in 0..MaxCards, next \in BOOLEAN :
         LET links == job_links \o PageJobLinks(current_page, n)
         IN  IF Len(links) >= max_jobs
             THEN /\ job_links' = Trim(links, max_jobs)
                  /\ current_page' = current_page
                  /\ Finally
                  /\ search_out' = "returned"
             ELSE /\ job_links' = links
                  /\ IF current_page < MaxPages /\ next
                     THEN /\ current_page' = current_page + 1
                          /\ pc' = "s_page"
                          /\ UNCHANGED <<driver, search_out>>
                     ELSE /\ current_page' = current_page
                          /\ Finally
                          /\ search_out' = "returned"
    /\ UNCHANGED searchFrame

\* the print behind job_links.extend raises (stdout closed), or the user
\* interrupts there: the finally clause returns job_links as extended
ExtendThenRaises ==
    /\ InLoop
    /\ pages' = Append(pages, current_page)
    /\ \E n \in 0..MaxCards :
         job_links' = job_links \o PageJobLinks(current_page, n)
    /\ Finally
    /\ search_out' = "returned"
    /\ UNCHANGED <<searchFrame, current_page>>

NextSearch ==
    \/ StartDriver
    \/ StartDriverRaises
    \/ EnterTry
    \/ SetupRaises
    \/ Navigate
    \/ NavigateRaises
    \/ NoJobCards
    \/ ExtractPage
    \/ ExtendThenRaises

SpecSearch == InitSearch /\ [][NextSearch]_vars

----------------------------------------------------------------------------
(* Properties *)

\* how often a job id occurs in a list
Count(ids, x) == Cardinality({k \in 1..Len(ids) : ids[k] = x})

InList(ids, x) == \E k \in 1..Len(ids) : ids[k] = x

\* C1: when the report is built, applied_count + failed_count +
\* skipped_count is the number of ranked jobs that entered the apply phase.
C1_Accounting ==
    report.built =>
        report.applied_count + report.failed_count + report.skipped_count
            = Len(ranked_jobs)

\* C2: after the per-job loop every job is in exactly one of applied_jobs,
\* failed_jobs, skipped_jobs, and is recorded there once.
C2_ExactlyOneOutcome ==
    (pc = "report" /\ ~args.auto_apply) =>
        \A j \in Ids(ranked_jobs) :
            Count(applied_jobs, j) + Count(failed_jobs, j)
                + Count(skipped_jobs, j) = 1

\* C3: in bulk mode every job submitted to the worker is in the report, a
\* job the returned list omits as failed.
C3_BulkMissingIsFailed ==
    (report.built /\ args.auto_apply) =>
        \A k \in 1..Len(DirectApplyJobs(ranked_jobs)) :
            LET j == DirectApplyJobs(ranked_jobs)[k]
            IN  InList(report.applied_jobs, j) \/ InList(report.failed_jobs, j)

\* C4: a job recorded as failed after its connector call failed has had
\* exactly one further connector call, two in all.
C4_RetryOnce ==
    (pc \in {"loop", "report", "done"} /\ ~args.auto_apply) =>
        \A j \in DOMAIN calls :
            (InList(failed_jobs, j) /\ calls[j] >= 1) => calls[j] = 2

\* C5: after a failed login the report is produced and every job not
\* attempted is in it as skipped.
C5_FatalSkipsRest ==
    (pc = "done" /\ retval = 1 /\ browser = "closed") =>
        /\ report.built
        /\ \A j \in Ids(ranked_jobs) : InList(report.skipped_jobs, j)

\* C6: every execution that entered the apply phase has produced the
\* report when main returns.
C6_ReportBeforeReturn ==
    (pc = "done" /\ ApplyGuard) => report.built

\* C7: a job an earlier invocation recorded as applied gets no connector
\* call when the apply phase is invoked again.
C7_NoCallForApplied ==
    \A j \in prev_applied : j \in DOMAIN calls => calls[j] = 0

\* C8: after ranking the scores are non-increasing along ranked_jobs, jobs
\* of equal score keep the order of the scored input, and no job is lost.
C8_RankingOrder ==
    pc = "ranked" =>
        /\ Len(ranked_jobs) = Len(scored)
        /\ Ids(ranked_jobs) = {scored[k] : k \in 1..Len(scored)}
        /\ \A p, q \in 1..Len(ranked_jobs) :
             p < q =>
               /\ ranked_jobs[p].score >= ranked_jobs[q].score
               /\ ranked_jobs[p].score = ranked_jobs[q].score =>
                    Pos(scored, ranked_jobs[p].id) < Pos(scored, ranked_jobs[q].id)

\* two jobs of equal adjusted score, one of them with a bonus, and a sort
\* that moved a job
C8_Witness ==
    /\ pc = "ranked"
    /\ Len(ranked_jobs) = 2
    /\ ranked_jobs[1].score = ranked_jobs[2].score
    /\ ranked_jobs[1].bonus = 0
    /\ ranked_jobs[2].bonus = 2
    /\ ranked_jobs[1].id = 1

\* C9: the bonus is at most 2, the score grows by at most 2 and the
\* adjusted score is at most 10.
C9_BonusCap ==
    pc \in {"sort", "ranked"} =>
        \A k \in 1..Len(ranked_jobs) :
            /\ ranked_jobs[k].bonus <= 2
            /\ ranked_jobs[k].score - ranked_jobs[k].original_score <= 2
            /\ ranked_jobs[k].score <= 10

\* three roles match a title that holds one of them twice, and the score
\* is clipped
C9_Witness ==
    /\ pc = "sort"
    /\ \E k \in 1..Len(ranked_jobs) :
         /\ RoleMatchScore(Lower(ranked_jobs[k].title), user_roles) >= 3
         /\ ranked_jobs[k].title = <<"A", "b", "a">>
         /\ ranked_jobs[k].bonus = 2
         /\ ranked_jobs[k].original_score = 9
         /\ ranked_jobs[k].score = 10

\* the distinct roles, letter case apart, that occur in a title
DistinctMatches(title, roles) ==
    {Lower(roles[k]) : k \in {n \in 1..Len(roles) :
                                 Contains(Lower(roles[n]), Lower(title))}}

\* C10: the bonus is min(number of distinct user roles that occur in the
\* title, 2), a role listed twice counted once.
C10_BonusCountsDistinct ==
    pc \in {"sort", "ranked"} =>
        \A k \in 1..Len(ranked_jobs) :
            ranked_jobs[k].bonus =
                Min(Cardinality(DistinctMatches(ranked_jobs[k].title, user_roles)), 2)

\* C11: the ranked list built from the results holds each job id at most
\* once, under each of the three matching methods.
C11_UniqueJobIds ==
    pc = "filter" =>
        \A p, q \in 1..Len(ranked_jobs) :
            ranked_jobs[p].id = ranked_jobs[q].id => p = q

\* C12: every score stored in a ranked job, the score the scorer returned
\* and the score after the role bonus, is at least 0 and at most 10.
C12_ScoreRange ==
    pc \in {"bonus", "sort", "ranked"} =>
        \A k \in 1..Len(ranked_jobs) :
            /\ 0 <= ranked_jobs[k].original_score
            /\ ranked_jobs[k].original_score <= ScoreCap
            /\ 0 <= ranked_jobs[k].score
            /\ ranked_jobs[k].score <= ScoreCap

\* a job scored 10 that got the bonus of 2 and a job scored 0 without bonus
C12_Witness ==
    /\ pc = "sort"
    /\ \E p, q \in 1..Len(ranked_jobs) :
         /\ ranked_jobs[p].original_score = 10
         /\ ranked_jobs[p].bonus = 2
         /\ ranked_jobs[p].score = 10
         /\ ranked_jobs[q].original_score = 0
         /\ ranked_jobs[q].score = 0

\* the job_ids of the jobs of apply type company_site
CompanySiteIds ==
    {job_details[k].job_id :
        k \in {n \in 1..Len(job_details) :
                 job_details[n].apply_type = "company_site"}}

\* C13: once the company-site filter is enabled, no job of apply type
\* company_site is in ranked_jobs, so that none is eligible, and none has a
\* connector call.
C13_CompanySiteExcluded ==
    filter_company_site =>
        \A j \in CompanySiteIds :
            /\ j \notin Ids(ranked_jobs)
            /\ j \in DOMAIN calls => calls[j] = 0

\* the filter is enabled, job 1 is a company_site job of score 7, and the
\* per-job loop has called the connector for job 2
C13_Witness ==
    /\ filter_company_site
    /\ CompanySiteIds = {1}
    /\ match_results[1].score = 7
    /\ pc = "report"
    /\ ~args.auto_apply
    /\ 2 \in DOMAIN calls
    /\ calls[2] = 1

\* C14: a job whose result has no score, and a job without description,
\* is in no ranked job; every ranked job carries the score of its result,
\* so that no job is given a score the scorer did not return.
C14_UnscoredExcluded ==
    pc = "filter" =>
        /\ \A k \in 1..Len(match_results) :
             match_results[k].score = NoScore =>
                 match_results[k].job_id \notin Ids(ranked_jobs)
        /\ \A k \in 1..Len(job_details) :
             ~job_details[k].desc => job_details[k].job_id \notin Ids(ranked_jobs)
        /\ \A k \in 1..Len(ranked_jobs) :
             \E r \in 1..Len(match_results) :
                 /\ match_results[r].job_id = ranked_jobs[k].id
                 /\ match_results[r].score = ranked_jobs[k].score
                 /\ match_results[r].score # NoScore

\* two jobs were given to the scorer, one came back without score and the
\* other with score 0, and only the other one is ranked
C14_Witness ==
    /\ pc = "filter"
    /\ Len(match_results) = 2
    /\ match_results[1].score = NoScore
    /\ match_results[2].score = 0
    /\ Ids(ranked_jobs) = {2}

\* C15: in apply mode, with a ranked list from an earlier run at hand, the
\* run makes no scoring call.
C15_Resumable ==
    (args.mode = "apply" /\ have_ranked_file) => scoring_calls = 0

\* a user role occurs in the title of the job
RoleOverlap(job, roles) == RoleMatchScore(Lower(job.title), roles) > 0

\* C16: a job of the loaded ranked list is admitted to the apply phase
\* unless its score is below the configured min_score and no role overlaps,
\* the rule of the freshly matched list.
C16_OnePolicy ==
    (pc = "apply" /\ ranked_data # <<>> /\ args.mode = "apply") =>
        \A k \in 1..Len(ranked_data) :
            (ranked_data[k].id \in Ids(ranked_jobs)) <=>
                ~(/\ ranked_data[k].score < args.min_score
                  /\ ~RoleOverlap(ranked_data[k], UserRoles(args.roles)))

\* C21: after the eligibility step no job found ineligible has a connector
\* call, and each job has had one verdict: it is once in the eligible list
\* or once in the ineligible list.
C21_OnlyEligibleOnce ==
    pc \in {"apply", "auto", "login", "loop", "hung", "interrupted",
            "report", "done"} =>
        /\ \A k \in 1..Len(ineligible_jobs) :
             ineligible_jobs[k] \in DOMAIN calls => calls[ineligible_jobs[k]] = 0
        /\ \A k \in 1..Len(job_details) :
             Count(IdSeq(ranked_jobs) \o ineligible_jobs,
                   job_details[k].job_id) <= 1

\* C22: the matching method, once chosen, does not change, and all results
\* of the run come from the same scorer.
C22_OneStrategy ==
    [][/\ match_method # "none" => match_method' = match_method
       /\ \A p, q \in 1..Len(match_results') :
            match_results'[p].by = match_results'[q].by]_vars

\* TF-IDF matching scored two jobs, one below and one above the threshold
\* of the two-stage scorer
C22_Witness ==
    /\ pc = "build"
    /\ match_method = "2"
    /\ Len(match_results) = 2
    /\ match_results[1].score = 0
    /\ match_results[2].score = 9
    /\ match_results[2].by = "tfidf"

\* C23: the step that makes job_details a mapping keyed by job_id keeps
\* every job, in the order of the list.
C23_ConversionKeepsJobs ==
    [][pc = "match" =>
         /\ Len(job_details') = Len(job_details)
         /\ \A k \in 1..Len(job_details) :
              /\ job_details'[k].desc = job_details[k].desc
              /\ job_details'[k].role = job_details[k].role
              /\ job_details'[k].apply_type = job_details[k].apply_type]_vars

\* C17: a connector call of the per-job loop that follows an earlier one
\* starts after a sleep of 5 to 10 seconds, also when the earlier attempt
\* failed or raised.
C17_PacedCalls ==
    [][(pc = "loop" /\ calls' # calls /\ since_call # -1)
          => since_call \in WaitTimes]_vars

\* C18: when the per-job loop is cancelled, the outcomes recorded so far
\* are in the persisted results and report after the run has ended.
C18_CancelKeepsOutcomes ==
    (pc = "interrupted" /\ Len(applied_jobs) + Len(failed_jobs) > 0) =>
        /\ report.built
        /\ report.applied_jobs = applied_jobs
        /\ report.failed_jobs = failed_jobs

\* C19: a connector call is abandoned after a bounded time: the apply
\* phase, once in a connector call, has a step that leads on to the report.
C19_BoundedCalls ==
    pc = "hung" => ENABLED Next

\* C20: every run that completes the apply phase has written its report to
\* the persistence sink, with either backend.
C20_ReportPersisted ==
    (pc = "done" /\ report.built) => report.saved

C25_AutoApplyDirectOnly ==
    args.auto_apply =>
        /\ \A k \in 1..Len(ranked_jobs) :
             (/\ ranked_jobs[k].id \in DOMAIN calls
              /\ ranked_jobs[k].apply_type \notin {"naukri", "direct"})
                 => calls[ranked_jobs[k].id] = 0
        /\ (/\ report.built
            /\ \A k \in 1..Len(ranked_jobs) :
                 ranked_jobs[k].apply_type \notin {"naukri", "direct"})
               => /\ returncode = -1
                  /\ \A j \in DOMAIN calls : calls[j] = 0
                  /\ report.skipped_jobs = IdSeq(ranked_jobs)
                  /\ report.applied_count = 0
                  /\ report.failed_count = 0

\* auto-apply on two company-site jobs: both reported as skipped
C25_Witness ==
    /\ args.auto_apply
    /\ report.built
    /\ Len(ranked_jobs) = 2
    /\ \A k \in 1..2 : ranked_jobs[k].apply_type = "company_site"
    /\ report.skipped_count = 2

\* C26: when load_json gives apply_to_multiple_jobs no list (nothing
\* loaded, as with the database backend, or a dictionary), the report has
\* every submitted job as failed and none as applied, whatever the exit
\* code of the worker.
C26_BulkFallback ==
    (report.built /\ args.auto_apply /\ bulk_loaded.kind \in {"none", "dict"})
        => /\ report.applied_count = 0
           /\ report.applied_jobs = <<>>
           /\ report.failed_jobs = DirectApplyJobs(ranked_jobs)
           /\ report.failed_count = Len(DirectApplyJobs(ranked_jobs))

\* the worker exited with code 0 and the results file held a dictionary:
\* both submitted jobs are reported as failed
C26_Witness ==
    /\ report.built
    /\ args.auto_apply
    /\ bulk_loaded.kind = "dict"
    /\ returncode = 0
    /\ report.failed_count = 2

RECURSIVE IsSubsequence(_, _)
\* sub is got from seq by leaving entries out
IsSubsequence(sub, seq) ==
    IF sub = <<>> THEN TRUE
    ELSE IF seq = <<>> THEN FALSE
    ELSE IF Head(sub) = Head(seq)
         THEN IsSubsequence(Tail(sub), Tail(seq))
         ELSE IsSubsequence(sub, Tail(seq))

\* C28: the eligibility step keeps the order of the sorted ranked list:
\* the eligible list is a subsequence of it and is still in descending
\* order of score, and every entry of the ranked list is in exactly one of
\* the eligible and the ineligible list.
C28_GateKeepsOrder ==
    [][pc = "ranked" =>
         /\ IsSubsequence(ranked_jobs', ranked_jobs)
         /\ \A p, q \in 1..Len(ranked_jobs') :
              p < q => ranked_jobs'[p].score >= ranked_jobs'[q].score
         /\ Len(ranked_jobs') + Len(ineligible_jobs') = Len(ranked_jobs)
         /\ \A k \in 1..Len(ranked_jobs) :
              LET id == ranked_jobs[k].id
              IN  /\ Count(IdSeq(ranked_jobs'), id) + Count(ineligible_jobs', id)
                       = Count(IdSeq(ranked_jobs), id)
                  /\ Count(IdSeq(ranked_jobs'), id) = 0
                       \/ Count(ineligible_jobs', id) = 0]_vars

\* two eligible jobs of different score have passed the gate
C28_Witness ==
    /\ pc = "apply"
    /\ browser = "none"
    /\ ineligible_jobs = <<>>
    /\ Len(ranked_jobs) = 2
    /\ ranked_jobs[1].id # ranked_jobs[2].id
    /\ ranked_jobs[1].score > ranked_jobs[2].score

\* C27: when the apply phase is left after the browser was started, the
\* browser is closed and no connector call follows; when the search
\* function is left after its browser was started, that browser is quit.
C27_SessionsReleased ==
    /\ (pc \in {"done", "interrupted"} /\ browser # "none")
          => browser = "closed"
    /\ (pc = "s_done" /\ driver # "none") => driver = "quit"

\* C29: the search processes the result pages 1, 2, ... in this order and
\* at most 3 of them, goes to no further page once it has max_jobs links,
\* and returns at most max_jobs links.
C29_BoundedPagination ==
    /\ pages = [k \in 1..Len(pages) |-> k]
    /\ Len(pages) <= MaxPages
    /\ (pc = "s_page" /\ pages # <<>>) => Len(job_links) < max_jobs
    /\ search_out = "returned" => Len(job_links) <= max_jobs

\* C30: the search function ends by returning its list of links, never by
\* an exception.
C30_AlwaysReturnsLinks ==
    pc = "s_done" => search_out = "returned"

====
